---- MODULE Spec2Model ----
(***************************************************************************)
(* Model of the backtesting engine of strategy_lab/backtest.go:            *)
(* runBacktest's sweep over the benchmark returns, the correlation ranker  *)
(* (calculateCorrelations, sort.Slice) and the trade simulator.            *)
(*                                                                         *)
(* Numbers.  float64 values are modelled by exact rationals:               *)
(*   - a daily return r is the integer r * RetScale (every close the       *)
(*     model uses divides (c1 - c0) * RetScale exactly, see ExactReturns); *)
(*   - a correlation is the record [nan, sxy, sxx]: the value is           *)
(*     sxy / sqrt(sxx * syy) with syy the benchmark's sum of squares,      *)
(*     common to all the tickers of one trigger, and NaN when sxx*syy = 0; *)
(*   - a trade return is the record [kind, n, d] (kind "fin": n / d).      *)
(* Dates are day numbers (an order-preserving image of the ISO strings).   *)
(* Go's 0-based indices are kept; At(s, j) reads s[j] of the Go slice.     *)
(***************************************************************************)
EXTENDS Integers, Sequences, FiniteSets, TLC

\* --- Configuration (backtest.go:21-34) ---
benchmarkTicker == "DX-Y.NYB"
volatilityWindow == 20
correlationWindow == 30
holdingPeriod == 5
\* triggerThreshold = 1.5 = triggerThresholdNum / triggerThresholdDen
triggerThresholdNum == 3
triggerThresholdDen == 2
\* frictionCost = 0.0015 = frictionCostNum / frictionCostDen
frictionCostNum == 15
frictionCostDen == 10000
numAssetsToPick == 3
assetPool == <<"600406.SS", "002028.SZ", "002270.SZ", "688676.SS", "159326.SZ">>

\* --- Bounds of the input price tables ---
\* calendar days 1..NumDays
NumDays == 39
\* the benchmark may change price on each of the days 32..LastFree
LastFree == 33

\* --- Helpers for Go slices ---
At(s, j) == s[j + 1]
\* s[a:b]
Slice(s, a, b) == SubSeq(s, a + 1, b)
Min(a, b) == IF a < b THEN a ELSE b
Abs(x) == IF x < 0 THEN -x ELSE x
Sign(x) == IF x < 0 THEN -1 ELSE IF x > 0 THEN 1 ELSE 0

RECURSIVE Gcd(_, _)
Gcd(a, b) == IF b = 0 THEN a ELSE Gcd(b, a % b)

\* the two non-zero closes of the tables, and the scale of the returns: the
\* least S with (c1 - c0) * S / c0 an integer for all closes c0 # 0, c1
Closes == <<100, 105>>
PriceLo == Closes[1]
PriceHi == Closes[2]
RetScale == (PriceLo \div Gcd(PriceHi, PriceLo)) * (PriceHi \div Gcd(PriceHi, PriceLo))

RECURSIVE SumSeq(_)
SumSeq(s) == IF s = <<>> THEN 0 ELSE Head(s) + SumSeq(Tail(s))

\* sum of x[j] * y[j]
RECURSIVE SumProd(_, _)
SumProd(x, y) == IF x = <<>> THEN 0 ELSE Head(x) * Head(y) + SumProd(Tail(x), Tail(y))

\* a / b < c / d for naturals a, c and positive b, d, without forming a * d
RECURSIVE FracLess(_, _, _, _)
FracLess(a, b, c, d) ==
    LET qa == a \div b
        qc == c \div d
        ra == a % b
        rc == c % d
    IN  IF qa # qc THEN qa < qc
        ELSE IF rc = 0 THEN FALSE
        ELSE IF ra = 0 THEN TRUE
        ELSE FracLess(d, rc, b, ra)

\* --- Utility Functions (backtest.go:341-369) ---
\* the pairs whose earlier close is 0 left out of the returns
getDailyReturns_SkipZero(data) ==
    LET from == SelectSeq([j \in 1..(Len(data) - 1) |-> j], LAMBDA j : data[j].Close # 0)
    IN  [m \in 1..Len(from) |->
            ((data[from[m] + 1].Close - data[from[m]].Close) * RetScale) \div data[from[m]].Close]

\* getDailyReturns: one return per consecutive pair, 0 when the earlier close is 0
getDailyReturns(data) ==
    [j \in 1..(Len(data) - 1) |->
        IF data[j].Close # 0
        THEN ((data[j + 1].Close - data[j].Close) * RetScale) \div data[j].Close
        ELSE 0]

\* findDateIndex: 0-based position of the first record with that date, or -1
findDateIndex(data, date) ==
    LET hits == {j \in 1..Len(data) : data[j].Date = date}
    IN  IF hits = {} THEN -1
        ELSE (CHOOSE j \in hits : \A h \in hits : j <= h) - 1

\* getPriceSlice: data[startIdx : endIdx+1], or nil
getPriceSlice(data, startDate, endDate) ==
    LET startIdx == findDateIndex(data, startDate)
        endIdx == findDateIndex(data, endDate)
    IN  IF startIdx # -1 /\ endIdx # -1 /\ startIdx <= endIdx
        THEN Slice(data, startIdx, endIdx + 1)
        ELSE <<>>

\* --- gonum/stat as called by the engine ---
\* n * Sum(x^2) - Sum(x)^2 = n * (n - 1) * (sample variance)
SumSqDev(x) == Len(x) * SumProd(x, x) - SumSeq(x) * SumSeq(x)

\* stat.StdDev(x, nil) (backtest.go:208), kept as its square num / den
StdDev(x) == [num |-> SumSqDev(x), den |-> Len(x) * (Len(x) - 1)]

\* the test written with >= instead of >
ExceedsThreshold_AtLeast(r, volatility) ==
    /\ r >= 0
    /\ triggerThresholdDen * triggerThresholdDen * r * r * volatility.den
         >= triggerThresholdNum * triggerThresholdNum * volatility.num

\* the test made on the magnitude of the return
ExceedsThreshold_TwoSided(r, volatility) ==
    /\ r # 0
    /\ triggerThresholdDen * triggerThresholdDen * r * r * volatility.den
         > triggerThresholdNum * triggerThresholdNum * volatility.num

\* no trigger while the trailing volatility is 0
ExceedsThreshold_NonZeroVolatility(r, volatility) ==
    /\ r > 0
    /\ volatility.num > 0
    /\ triggerThresholdDen * triggerThresholdDen * r * r * volatility.den
         > triggerThresholdNum * triggerThresholdNum * volatility.num

\* benchmarkReturns[i] > triggerThreshold*volatility (backtest.go:211);
\* volatility >= 0, so a return <= 0 never exceeds it
ExceedsThreshold(r, volatility) ==
    /\ r > 0
    /\ triggerThresholdDen * triggerThresholdDen * r * r * volatility.den
         > triggerThresholdNum * triggerThresholdNum * volatility.num

\* stat.Correlation(x, y, nil) (backtest.go:282): sxy / sqrt(sxx * syy),
\* NaN (0/0) when either series is constant
Correlation(x, y) ==
    LET n == Len(x)
        sxx == SumSqDev(x)
        syy == SumSqDev(y)
        sxy == n * SumProd(x, y) - SumSeq(x) * SumSeq(y)
    IN  [nan |-> (sxx = 0 \/ syy = 0), sxy |-> sxy, sxx |-> sxx]

\* a < b on float64 correlations of one trigger: false when either is NaN
FloatLess(a, b) ==
    /\ ~a.nan
    /\ ~b.nan
    /\ IF Sign(a.sxy) # Sign(b.sxy) THEN Sign(a.sxy) < Sign(b.sxy)
       ELSE IF a.sxy = 0 THEN FALSE
       ELSE IF a.sxy > 0 THEN FracLess(a.sxy * a.sxy, a.sxx, b.sxy * b.sxy, b.sxx)
       ELSE FracLess(b.sxy * b.sxy, b.sxx, a.sxy * a.sxy, a.sxx)

\* the comparison function given to sort.Slice (backtest.go:220-222)
less(a, b) == FloatLess(a.value, b.value)

\* element j sinks while its left neighbour is not less than it
RECURSIVE Sink_NotGreater(_, _)
Sink_NotGreater(s, j) ==
    IF j > 1 /\ ~less(s[j - 1], s[j])
    THEN Sink_NotGreater([s EXCEPT ![j] = s[j - 1], ![j - 1] = s[j]], j - 1)
    ELSE s

\* sort.Slice on at most 12 elements is an insertion sort: element j sinks
\* while it is less than its left neighbour
RECURSIVE Sink(_, _)
Sink(s, j) ==
    IF j > 1 /\ less(s[j], s[j - 1])
    THEN Sink([s EXCEPT ![j] = s[j - 1], ![j - 1] = s[j]], j - 1)
    ELSE s

RECURSIVE InsertionSort(_, _)
InsertionSort(s, j) == IF j > Len(s) THEN s ELSE InsertionSort(Sink(s, j), j + 1)

sortSlice(s) == InsertionSort(s, 2)

\* --- Correlation ranker (backtest.go:264-287) ---
\* the pool ranked with each ticker's window taken at the benchmark's positions
\* instead of between the benchmark's dates
\* history: the tickers in the order the loop over the map in main visited them
VARIABLE visited

\* the pool taken from the keys of the map, in the order the map was iterated
poolOrder_MapOrder == SelectSeq(visited, LAMBDA t : t # benchmarkTicker)

\* for _, ticker := range assetPool
poolOrder == assetPool

RECURSIVE rankPool_Positional(_, _, _, _, _)
rankPool_Positional(p, data, corrStartDate, triggerDate, benchmarkReturns) ==
    IF p > Len(poolOrder) THEN <<>>
    ELSE LET ticker == poolOrder[p]
             triggerIdx == findDateIndex(data[benchmarkTicker], triggerDate)
             assetSlice == IF triggerIdx < Len(data[ticker])
                           THEN Slice(data[ticker], triggerIdx - correlationWindow, triggerIdx + 1)
                           ELSE <<>>
             assetReturns == getDailyReturns(assetSlice)
             rest == rankPool_Positional(p + 1, data, corrStartDate, triggerDate, benchmarkReturns)
         IN  IF Len(assetSlice) < correlationWindow THEN rest
             ELSE IF Len(assetReturns) = Len(benchmarkReturns)
             THEN <<[ticker |-> ticker,
                     value |-> Correlation(assetReturns, benchmarkReturns)]>> \o rest
             ELSE rest

RECURSIVE rankPool(_, _, _, _, _)
rankPool(p, data, corrStartDate, triggerDate, benchmarkReturns) ==
    IF p > Len(poolOrder) THEN <<>>
    ELSE LET ticker == poolOrder[p]
             assetSlice == getPriceSlice(data[ticker], corrStartDate, triggerDate)
             assetReturns == getDailyReturns(assetSlice)
             rest == rankPool(p + 1, data, corrStartDate, triggerDate, benchmarkReturns)
         IN  IF Len(assetSlice) < correlationWindow THEN rest
             ELSE IF Len(assetReturns) = Len(benchmarkReturns)
             THEN <<[ticker |-> ticker,
                     value |-> Correlation(assetReturns, benchmarkReturns)]>> \o rest
             ELSE rest

\* a trigger without the history of a full window ranks every pool ticker
\* that has the trigger date, all tied
calculateCorrelations_WithoutHistory(triggerDate, data, benchmarkData) ==
    LET triggerIdx == findDateIndex(benchmarkData, triggerDate)
        present == SelectSeq(poolOrder, LAMBDA t : findDateIndex(data[t], triggerDate) # -1)
    IN  IF triggerIdx < correlationWindow
        THEN [p \in 1..Len(present) |->
                 [ticker |-> present[p], value |-> Correlation(<<0, 1>>, <<0, 1>>)]]
        ELSE LET corrStartDate == At(benchmarkData, triggerIdx - correlationWindow).Date
                 benchmarkSlice == getPriceSlice(benchmarkData, corrStartDate, triggerDate)
             IN  rankPool(1, data, corrStartDate, triggerDate, getDailyReturns(benchmarkSlice))

calculateCorrelations(triggerDate, data, benchmarkData) ==
    LET triggerIdx == findDateIndex(benchmarkData, triggerDate)
    IN  IF triggerIdx < correlationWindow THEN <<>>
        ELSE LET corrStartDate == At(benchmarkData, triggerIdx - correlationWindow).Date
                 benchmarkSlice == getPriceSlice(benchmarkData, corrStartDate, triggerDate)
             IN  rankPool(1, data, corrStartDate, triggerDate, getDailyReturns(benchmarkSlice))

\* --- Trade return (backtest.go:242) ---
\* the friction cost charged for each day of the holding period
tradeReturn_PerDay(entryPrice, exitPrice) ==
    IF entryPrice = 0
    THEN [kind |-> IF exitPrice = 0 THEN "NaN" ELSE "+Inf", n |-> 0, d |-> 1]
    ELSE LET n == (exitPrice - entryPrice) * frictionCostDen
                    - holdingPeriod * frictionCostNum * entryPrice
             d == entryPrice * frictionCostDen
             g == Gcd(Abs(n), d)
         IN  [kind |-> "fin", n |-> n \div g, d |-> d \div g]

\* (exitPrice/entryPrice - 1) - frictionCost; x/0 is +Inf for x > 0 and NaN for x = 0
tradeReturn(entryPrice, exitPrice) ==
    IF entryPrice = 0
    THEN [kind |-> IF exitPrice = 0 THEN "NaN" ELSE "+Inf", n |-> 0, d |-> 1]
    ELSE LET n == (exitPrice - entryPrice) * frictionCostDen - frictionCostNum * entryPrice
             d == entryPrice * frictionCostDen
             g == Gcd(Abs(n), d)
         IN  [kind |-> "fin", n |-> n \div g, d |-> d \div g]

\* --- Exact arithmetic for the analysis (backtest.go:290-339) ---
\* A float64 of the analysis is modelled by the exact value it approximates:
\* [kind |-> "fin", s |-> sign, n |-> numerator, d |-> denominator], or kind
\* "inf" with a sign, or kind "nan". Numerator and denominator are naturals of
\* any size, written as sequences of limbs, least significant first.
Limb == 10000

RECURSIVE Big(_)
Big(n) == IF n = 0 THEN <<>> ELSE <<n % Limb>> \o Big(n \div Limb)

RECURSIVE BigTrim(_)
BigTrim(a) ==
    IF a # <<>> /\ a[Len(a)] = 0 THEN BigTrim(SubSeq(a, 1, Len(a) - 1)) ELSE a

RECURSIVE BigAddC(_, _, _)
BigAddC(a, b, c) ==
    IF a = <<>> /\ b = <<>> THEN Big(c)
    ELSE LET x == (IF a = <<>> THEN 0 ELSE Head(a)) + (IF b = <<>> THEN 0 ELSE Head(b)) + c
         IN  <<x % Limb>> \o BigAddC(IF a = <<>> THEN a ELSE Tail(a),
                                     IF b = <<>> THEN b ELSE Tail(b), x \div Limb)

BigAdd(a, b) == BigAddC(a, b, 0)

\* a - b - c for a >= b + c
RECURSIVE BigSubC(_, _, _)
BigSubC(a, b, c) ==
    IF a = <<>> THEN <<>>
    ELSE LET x == Head(a) - (IF b = <<>> THEN 0 ELSE Head(b)) - c
         IN  <<(x + Limb) % Limb>>
                \o BigSubC(Tail(a), IF b = <<>> THEN b ELSE Tail(b), IF x < 0 THEN 1 ELSE 0)

BigSub(a, b) == BigTrim(BigSubC(a, b, 0))

\* the sign of a - b
RECURSIVE BigCmpAt(_, _, _)
BigCmpAt(a, b, j) ==
    IF j = 0 THEN 0
    ELSE IF a[j] # b[j] THEN (IF a[j] < b[j] THEN -1 ELSE 1)
    ELSE BigCmpAt(a, b, j - 1)

BigCmp(a, b) ==
    IF Len(a) # Len(b) THEN (IF Len(a) < Len(b) THEN -1 ELSE 1) ELSE BigCmpAt(a, b, Len(a))

RECURSIVE BigMulLimb(_, _, _)
BigMulLimb(a, m, c) ==
    IF a = <<>> THEN Big(c)
    ELSE LET x == Head(a) * m + c
         IN  <<x % Limb>> \o BigMulLimb(Tail(a), m, x \div Limb)

RECURSIVE BigMul(_, _)
BigMul(a, b) ==
    IF a = <<>> \/ b = <<>> THEN <<>>
    ELSE LET rest == BigMul(a, Tail(b))
         IN  BigTrim(BigAdd(BigMulLimb(a, Head(b), 0),
                            IF rest = <<>> THEN rest ELSE <<0>> \o rest))

NaN == [kind |-> "nan", s |-> 0, n |-> <<>>, d |-> Big(1)]
Inf(s) == [kind |-> "inf", s |-> s, n |-> <<>>, d |-> Big(1)]
Fin(s, n, d) == [kind |-> "fin", s |-> IF n = <<>> THEN 0 ELSE s, n |-> n, d |-> d]

\* the float64 of the fraction n/d of two integers, d > 0
Float(n, d) == Fin(Sign(n), Big(Abs(n)), Big(d))

fNeg(x) == [x EXCEPT !.s = -x.s]

\* x + y
fAdd(x, y) ==
    IF x.kind = "nan" \/ y.kind = "nan" THEN NaN
    ELSE IF x.kind = "inf" /\ y.kind = "inf" THEN (IF x.s = y.s THEN x ELSE NaN)
    ELSE IF x.kind = "inf" THEN x
    ELSE IF y.kind = "inf" THEN y
    ELSE LET same == x.d = y.d
             a == IF same THEN x.n ELSE BigMul(x.n, y.d)
             b == IF same THEN y.n ELSE BigMul(y.n, x.d)
             d == IF same THEN x.d ELSE BigMul(x.d, y.d)
         IN  IF x.s = 0 THEN y
             ELSE IF y.s = 0 THEN x
             ELSE IF x.s = y.s THEN Fin(x.s, BigAdd(a, b), d)
             ELSE IF BigCmp(a, b) >= 0 THEN Fin(x.s, BigSub(a, b), d)
             ELSE Fin(y.s, BigSub(b, a), d)

fSub(x, y) == fAdd(x, fNeg(y))

\* x * y
fMul(x, y) ==
    IF x.kind = "nan" \/ y.kind = "nan" THEN NaN
    ELSE IF x.kind = "inf" \/ y.kind = "inf"
    THEN (IF x.s * y.s = 0 THEN NaN ELSE Inf(x.s * y.s))
    ELSE Fin(x.s * y.s, BigMul(x.n, y.n), BigMul(x.d, y.d))

\* x / y
fDiv(x, y) ==
    IF x.kind = "nan" \/ y.kind = "nan" THEN NaN
    ELSE IF x.kind = "inf" THEN (IF y.kind = "inf" THEN NaN
                                 ELSE Inf(IF y.s < 0 THEN -x.s ELSE x.s))
    ELSE IF y.kind = "inf" THEN Fin(0, <<>>, Big(1))
    ELSE IF y.s = 0 THEN (IF x.s = 0 THEN NaN ELSE Inf(x.s))
    ELSE IF x.d = y.d THEN Fin(x.s * y.s, x.n, y.n)
    ELSE Fin(x.s * y.s, BigMul(x.n, y.d), BigMul(x.d, y.n))

\* the sign of x - y for two numbers that are not NaN
fCmp(x, y) ==
    IF x.kind = "inf" \/ y.kind = "inf"
    THEN Sign((IF x.kind = "inf" THEN 2 * x.s ELSE x.s) - (IF y.kind = "inf" THEN 2 * y.s ELSE y.s))
    ELSE IF x.s # y.s THEN Sign(x.s - y.s)
    ELSE IF x.s = 0 THEN 0
    ELSE x.s * BigCmp(IF x.d = y.d THEN x.n ELSE BigMul(x.n, y.d),
                      IF x.d = y.d THEN y.n ELSE BigMul(y.n, x.d))

\* x > y and x == y, false on NaN
fGreater(x, y) == x.kind # "nan" /\ y.kind # "nan" /\ fCmp(x, y) > 0
fEqual(x, y) == x.kind # "nan" /\ y.kind # "nan" /\ fCmp(x, y) = 0

\* --- Performance Analyzer (backtest.go:290-339) ---
Zero0 == Float(0, 1)
One == Float(1, 1)

\* Trade.Return as a number of the analysis
asFloat(ret) ==
    IF ret.kind = "NaN" THEN NaN
    ELSE IF ret.kind = "+Inf" THEN Inf(1)
    ELSE Float(ret.n, ret.d)

\* x[1] + ... + x[j], added in order
RECURSIVE fSum(_, _)
fSum(x, j) == IF j = 0 THEN Zero0 ELSE fAdd(fSum(x, j - 1), x[j])

\* x[1]^2 + ... + x[j]^2
RECURSIVE fSumSq(_, _)
fSumSq(x, j) == IF j = 0 THEN Zero0 ELSE fAdd(fSumSq(x, j - 1), fMul(x[j], x[j]))

\* stat.MeanStdDev(x, nil): the mean, and the square of the sample standard
\* deviation as (n * sum of squares - square of the sum) / (n * (n - 1))
MeanStdDev(x) ==
    LET n == Len(x)
        sum == fSum(x, n)
    IN  [mean |-> fDiv(sum, Float(n, 1)),
         variance |-> fDiv(fSub(fMul(Float(n, 1), fSumSq(x, n)), fMul(sum, sum)),
                           Float(n * (n - 1), 1))]

\* a Sharpe ratio is kept as its sign and its square
SharpeZero == [s |-> 0, square |-> Zero0]

\* the ratio computed for a single return as well
calculateSharpeRatio_NoLengthGuard(returns) ==
    LET m == MeanStdDev(returns)
    IN  IF fEqual(m.variance, Zero0) THEN SharpeZero
        ELSE LET sq == fDiv(fMul(Float(252, 1), fMul(m.mean, m.mean)), m.variance)
             IN  [s |-> IF sq.kind = "nan" THEN 0 ELSE m.mean.s, square |-> sq]

\* mean / stdDev * math.Sqrt(252), 0 for fewer than 2 returns or a stdDev of 0
calculateSharpeRatio(returns) ==
    IF Len(returns) < 2 THEN SharpeZero
    ELSE LET m == MeanStdDev(returns)
         IN  IF fEqual(m.variance, Zero0) THEN SharpeZero
             ELSE LET sq == fDiv(fMul(Float(252, 1), fMul(m.mean, m.mean)), m.variance)
                  IN  [s |-> IF sq.kind = "nan" THEN 0 ELSE m.mean.s, square |-> sq]

\* the loop of calculateMaxDrawdown from the j-th return on
RECURSIVE drawdownFrom(_, _, _, _, _)
drawdownFrom(returns, j, peak, maxDrawdown, portfolioValue) ==
    IF j > Len(returns) THEN maxDrawdown
    ELSE LET value == fMul(portfolioValue, fAdd(One, returns[j]))
             newPeak == IF fGreater(value, peak) THEN value ELSE peak
             drawdown == fDiv(fSub(newPeak, value), newPeak)
         IN  drawdownFrom(returns, j + 1, newPeak,
                          IF fGreater(drawdown, maxDrawdown) THEN drawdown ELSE maxDrawdown,
                          value)

\* the largest drawdown returned as it is, not negated
calculateMaxDrawdown_Positive(returns) == drawdownFrom(returns, 1, One, Zero0, One)

\* return -maxDrawdown
calculateMaxDrawdown(returns) == fNeg(drawdownFrom(returns, 1, One, Zero0, One))

\* a Return of 0 counted as a win
winningTrades_NotNegative(returns) ==
    Cardinality({j \in 1..Len(returns) :
                    fGreater(returns[j], Zero0) \/ fEqual(returns[j], Zero0)})

\* the number of trades with a Return > 0
winningTrades(returns) == Cardinality({j \in 1..Len(returns) : fGreater(returns[j], Zero0)})

\* the values printReport derives from the trade list
printReport(list) ==
    LET returns == [j \in 1..Len(list) |-> asFloat(list[j].Return)]
    IN  [TotalTrades |-> Len(list),
         MeanReturn |-> fDiv(fSum(returns, Len(returns)), Float(Len(list), 1)),
         WinRate |-> fDiv(Float(winningTrades(returns), 1), Float(Len(list), 1)),
         SharpeRatio |-> calculateSharpeRatio(returns),
         MaxDrawdown |-> calculateMaxDrawdown(returns)]

\* --- The input price tables ---
Tickers == {benchmarkTicker} \cup {assetPool[p] : p \in 1..Len(assetPool)}
Days == 1..NumDays

\* the close on day d of a series that starts at PriceLo and moves to the
\* other price on each day of flips; a series of zero closes when zero, and
\* zero closes from the day zeroFrom on
CloseOn(shape, d) ==
    IF shape.zero \/ d >= shape.zeroFrom THEN 0
    ELSE IF Cardinality({f \in shape.flips : f <= d}) % 2 = 0 THEN PriceLo ELSE PriceHi

\* the date-sorted series main() hands to runBacktest (backtest.go:69-78):
\* one record per day of shape.days, ascending, no duplicate dates
Series(ticker, shape) ==
    LET Present(d) == d \in shape.days
        dates == SelectSeq([d \in Days |-> d], Present)
    IN  [j \in 1..Len(dates) |->
            [Date |-> dates[j], Ticker |-> ticker, Close |-> CloseOn(shape, dates[j])]]

Shape(days, flips) ==
    [days |-> days, flips |-> flips, zero |-> FALSE, zeroFrom |-> NumDays + 1]

\* benchmark histories: flat, choppy (a change on each of days 14..23), one
\* early up-and-down (days 24, 25); then any changes on the days 32..LastFree;
\* an empty one, a single record, one that rises on day 32 and again on day 34,
\* one that falls on day 32, and one of volatilityWindow + 2 days that rises
\* on its last day, and one of volatilityWindow + 1 days that does the same
BenchmarkBases == {{}, 14..23, {24, 25}}
BenchmarkShapes ==
    {Shape(Days, base \cup free) : base \in BenchmarkBases, free \in SUBSET (32..LastFree)}
        \cup {Shape({}, {}), Shape({1}, {}), Shape(Days, 32..34), Shape(Days, {1, 32}),
              Shape(1..(volatilityWindow + 2), {volatilityWindow + 2}),
              Shape(1..(volatilityWindow + 1), {volatilityWindow + 1})}

\* the histories the pool tickers are drawn from
Flat == Shape(Days, {})
Up32 == Shape(Days, {32})
Down32 == Shape(Days, {2, 32})
Up33 == Shape(Days, {33})
Up37 == Shape(Days, {10, 11, 37})
Gap20 == Shape(Days \ {20}, {32})
Gap2 == Shape(Days \ {19, 20}, {32})
GapAfter == Shape(Days \ {34}, {33, 38})
Short == Shape(1..36, {2, 33})
Late == Shape(3..NumDays, {32, 37})
NoTrigger32 == Shape(Days \ {32}, {33})
Absent == Shape({}, {})
Zero == [days |-> Days, flips |-> {}, zero |-> TRUE, zeroFrom |-> 1]
\* rises with the benchmark on day 32 and is worth nothing from the exit day
\* of a trade entered on day 32 on
Collapse == [days |-> Days, flips |-> {32}, zero |-> FALSE, zeroFrom |-> 32 + holdingPeriod]

PoolShapes ==
    <<{Up32, Flat, Short},
      {Zero, Gap20, Up37},
      {Down32, Late, Up33},
      {GapAfter, Gap2},
      {Absent, NoTrigger32}>>

\* one history for each ticker of the pool, in pool order
PoolChoices ==
    {<<s1, s2, s3, s4, s5>> : s1 \in PoolShapes[1], s2 \in PoolShapes[2], s3 \in PoolShapes[3],
                              s4 \in PoolShapes[4], s5 \in PoolShapes[5]}

\* --- State ---
VARIABLES
    records,        \* main: the rows loadData returned, ordered by date
    previous,       \* <<>>, or the one result of an earlier run on the same rows
    dataByTicker,   \* map[string][]DailyData, nil slices as <<>>
    pc,             \* "load": main before loadData; "sort": in main's loop over the
                    \* map; "scan": at the head of the loop over i; "exec": at the
                    \* head of the loop over k; "done": runBacktest returned;
                    \* "exit": main returned; "fatal": log.Fatalf ended the run;
                    \* "panic": an index out of range ended the run;
                    \* "call" and "returned": around one call of getDailyReturns
    i,              \* benchmark return index of the outer loop
    k,              \* rank index of the inner loop
    triggerDate,    \* date of the current trigger (0 before the first)
    correlations,   \* the sorted ranking of the current trigger
    trades,         \* the trade list
    reports,        \* the reports printed so far, as the values printReport derived
    messages,       \* the lines logged after the sweep, and the fatal ones
    priceSeries,    \* the argument of a single call of getDailyReturns
    dailyReturns,   \* and what it returned
    tested,         \* history: the return indices the trigger test was made at
    fired,          \* history: return index -> the trigger date it fired with
    ranked,         \* history: return index -> the ranking as returned by calculateCorrelations
    log             \* history: for each trade, its trigger index, rank and entry/exit index

mainVars == <<records, previous, visited>>
reportVars == <<reports, messages>>
callVars == <<priceSeries, dailyReturns>>
vars == <<dataByTicker, pc, i, k, triggerDate, correlations, trades, tested, fired, ranked, log,
          mainVars, reportVars, callVars>>

\* --- The state at the call of runBacktest ---

benchmarkData == dataByTicker[benchmarkTicker]
benchmarkReturns == getDailyReturns(benchmarkData)

\* the tables the sweep is started on: every benchmark with every choice of
\* the pool, and the benchmark that rises on day 32 with a pool whose first
\* ticker collapses
InitialTables ==
    (BenchmarkShapes \X PoolChoices) \cup {<<Up32, <<Collapse, Flat, Up33, Absent, Absent>>>>}

Init ==
    /\ \E table \in InitialTables :
       LET b == table[1]
           s == table[2]
       IN dataByTicker =
                [t \in Tickers |->
                    IF t = benchmarkTicker THEN Series(t, b)
                    ELSE Series(t, s[CHOOSE p \in 1..Len(assetPool) : assetPool[p] = t])]
    /\ pc = "scan"
    /\ i = volatilityWindow
    /\ k = 0
    /\ triggerDate = 0
    /\ correlations = <<>>
    /\ trades = <<>>
    /\ tested = {}
    /\ fired = <<>>
    /\ ranked = <<>>
    /\ log = <<>>
    /\ records = <<>> /\ previous = <<>> /\ visited = <<>>
    /\ reports = <<>> /\ messages = <<>>
    /\ priceSeries = <<>> /\ dailyReturns = <<>>

\* --- Backtesting Engine (backtest.go:195-257) ---
\* a valid index of a Go slice
InRange(s, j) == j >= 0 /\ j < Len(s)

\* pastReturns := benchmarkReturns[i-volatilityWindow : i]
pastReturns(returns, j) == Slice(returns, j - volatilityWindow, j)

\* the trigger condition at return index j
triggerFires(returns, j) == ExceedsThreshold(At(returns, j), StdDev(pastReturns(returns, j)))

\* the trigger dated by the price point after the one the return ends at
dateIndex_DayAfter(j) == j + 2

\* the trigger dated by the price point the return starts from
dateIndex_ReturnIndex(j) == j

\* the price index whose date a trigger at return index j takes
dateIndex(j) == j + 1

\* triggerDate := benchmarkData[i+1].Date
triggerDateAt(data, j) == At(data, dateIndex(j)).Date

\* the exit index allowed to be the length of the series
exitInHistory_Inclusive(assetData, exitIdx) == exitIdx <= Len(assetData)

\* if exitIdx < len(assetData)
exitInHistory(assetData, exitIdx) == exitIdx < Len(assetData)

\* exitIdx := entryIdx + holdingPeriod
exitIndex(entryIdx) == entryIdx + holdingPeriod

\* the exit date counted in calendar days from the trigger date
newTrade_CalendarExit(assetData, pickedTicker, date, entryIdx, exitIdx) ==
    [EntryDate |-> date,
     ExitDate |-> date + holdingPeriod,
     Ticker |-> pickedTicker,
     EntryPrice |-> At(assetData, entryIdx).Close,
     ExitPrice |-> At(assetData, exitIdx).Close,
     Return |-> tradeReturn(At(assetData, entryIdx).Close, At(assetData, exitIdx).Close)]

\* the Trade appended at backtest.go:244-251
newTrade(assetData, pickedTicker, date, entryIdx, exitIdx) ==
    [EntryDate |-> date,
     ExitDate |-> At(assetData, exitIdx).Date,
     Ticker |-> pickedTicker,
     EntryPrice |-> At(assetData, entryIdx).Close,
     ExitPrice |-> At(assetData, exitIdx).Close,
     Return |-> tradeReturn(At(assetData, entryIdx).Close, At(assetData, exitIdx).Close)]

\* no trade opened on a ticker that an earlier trade still holds
appendTrade_UnlessHeld(list, trade) ==
    IF \E n \in 1..Len(list) :
          list[n].Ticker = trade.Ticker /\ list[n].ExitDate > trade.EntryDate
    THEN list
    ELSE Append(list, trade)

\* the list started anew with each trade
appendTrade_StartAnew(list, trade) == <<trade>>

\* the new trade put in front of the list
appendTrade_Prepend(list, trade) == <<trade>> \o list

\* trades = append(trades, Trade{...})
appendTrade(list, trade) == Append(list, trade)

\* one iteration of the loop over i whose trigger condition is false
NoTrigger ==
    /\ pc = "scan"
    /\ i < Len(benchmarkReturns)
    /\ ~triggerFires(benchmarkReturns, i)
    /\ tested' = tested \cup {i}
    /\ i' = i + 1
    /\ UNCHANGED <<dataByTicker, pc, k, triggerDate, correlations, trades, fired, ranked, log>>
    /\ UNCHANGED <<mainVars, reportVars, callVars>>

\* the trigger fires: the date is taken, the pool ranked and sorted, and the
\* loop over k entered
Trigger ==
    /\ pc = "scan"
    /\ i < Len(benchmarkReturns)
    /\ triggerFires(benchmarkReturns, i)
    /\ tested' = tested \cup {i}
    /\ IF dateIndex(i) \in 0..(Len(benchmarkData) - 1)
       THEN LET date == triggerDateAt(benchmarkData, i)
                unsorted == calculateCorrelations(date, dataByTicker, benchmarkData)
            IN  /\ triggerDate' = date
                /\ correlations' = sortSlice(unsorted)
                /\ fired' = Append(fired, [index |-> i, date |-> date])
                /\ ranked' = Append(ranked, unsorted)
                /\ pc' = "exec"
       ELSE /\ pc' = "panic"
            /\ UNCHANGED <<triggerDate, correlations, fired, ranked>>
    /\ k' = 0
    /\ UNCHANGED <<dataByTicker, i, trades, log>>
    /\ UNCHANGED <<mainVars, reportVars, callVars>>

\* the loop over k going on until numAssetsToPick trades were made
morePicks_UntilEnoughTrades ==
    /\ Cardinality({m \in 1..Len(trades) : trades[m].EntryDate = triggerDate}) < numAssetsToPick
    /\ k < Len(correlations)

\* k < numAssetsToPick && k < len(correlations)
morePicks == k < numAssetsToPick /\ k < Len(correlations)

\* one iteration of the loop over k
Execute ==
    /\ pc = "exec"
    /\ morePicks
    /\ LET pickedTicker == At(correlations, k).ticker
           assetData == dataByTicker[pickedTicker]
           entryIdx == findDateIndex(assetData, triggerDate)
           exitIdx == exitIndex(entryIdx)
       IN  IF entryIdx = -1
           THEN /\ k' = k + 1
                /\ UNCHANGED <<pc, trades, log>>
           ELSE IF ~exitInHistory(assetData, exitIdx)
           THEN /\ k' = k + 1
                /\ UNCHANGED <<pc, trades, log>>
           ELSE IF InRange(assetData, entryIdx) /\ InRange(assetData, exitIdx)
           THEN /\ trades' = appendTrade(trades,
                        newTrade(assetData, pickedTicker, triggerDate, entryIdx, exitIdx))
                /\ log' = Append(log, [index |-> i, rank |-> k,
                                       entryIdx |-> entryIdx, exitIdx |-> exitIdx])
                /\ k' = k + 1
                /\ UNCHANGED pc
           ELSE /\ pc' = "panic"
                /\ UNCHANGED <<k, trades, log>>
    /\ UNCHANGED <<dataByTicker, i, triggerDate, correlations, tested, fired, ranked>>
    /\ UNCHANGED <<mainVars, reportVars, callVars>>

\* the loop over k ends with every series cut down to the part up to the
\* trigger date
EndTrigger_KeepsHistoryOnly ==
    /\ pc = "exec"
    /\ ~morePicks
    /\ i' = i + 1
    /\ pc' = "scan"
    /\ dataByTicker' = [t \in Tickers |->
            SelectSeq(dataByTicker[t], LAMBDA r : r.Date <= triggerDate)]
    /\ UNCHANGED <<k, triggerDate, correlations, trades, tested, fired, ranked, log>>
    /\ UNCHANGED <<mainVars, reportVars, callVars>>

\* the loop over k ends and the loop over i tests the same index again
EndTrigger_SameIndex ==
    /\ pc = "exec"
    /\ ~morePicks
    /\ pc' = "scan"
    /\ UNCHANGED <<dataByTicker, i, k, triggerDate, correlations, trades, tested, fired, ranked, log>>
    /\ UNCHANGED <<mainVars, reportVars, callVars>>

\* the loop over k ends: next i
EndTrigger ==
    /\ pc = "exec"
    /\ ~morePicks
    /\ i' = i + 1
    /\ pc' = "scan"
    /\ UNCHANGED <<dataByTicker, k, triggerDate, correlations, trades, tested, fired, ranked, log>>
    /\ UNCHANGED <<mainVars, reportVars, callVars>>

\* the loop over i ends: return trades
Return ==
    /\ pc = "scan"
    /\ ~(i < Len(benchmarkReturns))
    /\ pc' = "done"
    /\ UNCHANGED <<dataByTicker, i, k, triggerDate, correlations, trades, tested, fired, ranked, log>>
    /\ UNCHANGED <<mainVars, reportVars, callVars>>

\* --- The report (backtest.go:85-90) ---
\* a report printed for an empty trade list as well
hasTrades_Always(list) == TRUE

\* if len(trades) > 0
hasTrades(list) == Len(list) > 0

\* if len(trades) > 0 { printReport(trades) }
PrintReport ==
    /\ pc = "done"
    /\ hasTrades(trades)
    /\ reports' = Append(reports, printReport(trades))
    /\ pc' = "exit"
    /\ UNCHANGED <<dataByTicker, i, k, triggerDate, correlations, trades, tested, fired, ranked, log>>
    /\ UNCHANGED <<messages, mainVars, callVars>>

\* else { log.Println("No trades were executed.") }
NoTrades ==
    /\ pc = "done"
    /\ ~hasTrades(trades)
    /\ messages' = Append(messages, "No trades were executed.")
    /\ pc' = "exit"
    /\ UNCHANGED <<dataByTicker, i, k, triggerDate, correlations, trades, tested, fired, ranked, log>>
    /\ UNCHANGED <<reports, mainVars, callVars>>

Next == NoTrigger \/ Trigger \/ Execute \/ EndTrigger \/ Return \/ PrintReport \/ NoTrades

Spec == Init /\ [][Next]_vars

\* --- main before the sweep (backtest.go:54-82) ---
\* dataByTicker[record.Ticker] = append(dataByTicker[record.Ticker], record)
groupByTicker(data) == [t \in Tickers |-> SelectSeq(data, LAMBDA r : r.Ticker = t)]

\* the keys of the map
Keys(table) == {t \in Tickers : table[t] # <<>>}

Range(s) == {s[j] : j \in 1..Len(s)}

\* a record put into a series that is ascending by date
RECURSIVE insertByDate(_, _)
insertByDate(series, record) ==
    IF series = <<>> \/ ~(record.Date < series[Len(series)].Date)
    THEN Append(series, record)
    ELSE Append(insertByDate(SubSeq(series, 1, Len(series) - 1), record), series[Len(series)])

\* sort.Slice(dataByTicker[ticker], ...[i].Date < ...[j].Date): the dates of one
\* ticker are distinct, so the order is the same for every sorting algorithm
RECURSIVE sortByDate(_)
sortByDate(series) ==
    IF series = <<>> THEN <<>>
    ELSE insertByDate(sortByDate(SubSeq(series, 1, Len(series) - 1)), series[Len(series)])

\* the rows of a table as the query returns them: by date, and within a date
\* the benchmark first and then the pool in its order
tickerOrder == <<benchmarkTicker>> \o assetPool
RECURSIVE Rows(_, _)
Rows(table, d) ==
    IF d > NumDays THEN <<>>
    ELSE SelectSeq([p \in 1..Len(tickerOrder) |->
                        IF \E j \in 1..Len(table[tickerOrder[p]]) : table[tickerOrder[p]][j].Date = d
                        THEN [Date |-> d, Ticker |-> tickerOrder[p],
                              Close |-> At(table[tickerOrder[p]],
                                           findDateIndex(table[tickerOrder[p]], d)).Close]
                        ELSE [Date |-> 0, Ticker |-> tickerOrder[p], Close |-> 0]],
                   LAMBDA r : r.Date # 0)
            \o Rows(table, d + 1)

Table(b, s) ==
    [t \in Tickers |->
        IF t = benchmarkTicker THEN Series(t, b)
        ELSE Series(t, s[CHOOSE p \in 1..Len(assetPool) : assetPool[p] = t])]

\* the tables main is started on: no benchmark, one trigger or two, with a
\* pool of at most three tickers with rows
MainBenchmarks == {Absent, Up32, Shape(Days, 32..34)}
MainPools == {<<Absent, Absent, Absent, Absent, Absent>>,
              <<Up32, Zero, Absent, Absent, Absent>>,
              <<Flat, Absent, Down32, Absent, NoTrigger32>>}

NoTable == [t \in Tickers |-> <<>>]

MainInit ==
    /\ \E b \in MainBenchmarks : \E s \in MainPools : records = Rows(Table(b, s), 1)
    /\ previous = <<>> /\ visited = <<>>
    /\ dataByTicker = NoTable
    /\ pc = "load"
    /\ i = 0 /\ k = 0 /\ triggerDate = 0
    /\ correlations = <<>> /\ trades = <<>>
    /\ tested = {} /\ fired = <<>> /\ ranked = <<>> /\ log = <<>>
    /\ reports = <<>> /\ messages = <<>>
    /\ priceSeries = <<>> /\ dailyReturns = <<>>

\* prepareData or loadData returns an error: log.Fatalf
LoadFails ==
    /\ pc = "load"
    /\ messages' = Append(messages, "Failed to load data")
    /\ pc' = "fatal"
    /\ UNCHANGED <<dataByTicker, i, k, triggerDate, correlations, trades, tested, fired, ranked, log>>
    /\ UNCHANGED <<reports, mainVars, callVars>>

\* loadData returns the rows and they are grouped by ticker
Load ==
    /\ pc = "load"
    /\ dataByTicker' = groupByTicker(records)
    /\ pc' = "sort"
    /\ UNCHANGED <<i, k, triggerDate, correlations, trades, tested, fired, ranked, log>>
    /\ UNCHANGED <<mainVars, reportVars, callVars>>

\* one iteration of the loop over the map: any key not yet visited
SortTicker ==
    /\ pc = "sort"
    /\ \E ticker \in Keys(dataByTicker) \ Range(visited) :
          /\ dataByTicker' = [dataByTicker EXCEPT ![ticker] = sortByDate(@)]
          /\ visited' = Append(visited, ticker)
    /\ UNCHANGED <<pc, i, k, triggerDate, correlations, trades, tested, fired, ranked, log>>
    /\ UNCHANGED <<records, previous, reportVars, callVars>>

\* the loop over the map ends: runBacktest is called
RunBacktest ==
    /\ pc = "sort"
    /\ Keys(dataByTicker) \subseteq Range(visited)
    /\ i' = volatilityWindow
    /\ pc' = "scan"
    /\ UNCHANGED <<dataByTicker, k, triggerDate, correlations, trades, tested, fired, ranked, log>>
    /\ UNCHANGED <<mainVars, reportVars, callVars>>

\* the program is started once more on the same rows; the result of the
\* first run is kept
Rerun ==
    /\ pc = "exit"
    /\ previous = <<>>
    /\ previous' = <<[visited |-> visited, trades |-> trades,
                      reports |-> reports, messages |-> messages]>>
    /\ visited' = <<>>
    /\ dataByTicker' = NoTable
    /\ pc' = "load"
    /\ i' = 0 /\ k' = 0 /\ triggerDate' = 0
    /\ correlations' = <<>> /\ trades' = <<>>
    /\ tested' = {} /\ fired' = <<>> /\ ranked' = <<>> /\ log' = <<>>
    /\ reports' = <<>> /\ messages' = <<>>
    /\ UNCHANGED <<records, callVars>>

MainNext == LoadFails \/ Load \/ SortTicker \/ RunBacktest \/ Next \/ Rerun

MainSpec == MainInit /\ [][MainNext]_vars

\* --- The analysis of a given trade list ---
\* trade lists of at most MaxTrades trades with these entry and exit prices
MaxTrades == 3
TradePrices == {<<2000, 2003>>, <<2000, 1003>>, <<2000, 3003>>, <<2000, 4003>>, <<0, 0>>}

RECURSIVE TradeLists(_)
TradeLists(n) ==
    IF n = 0 THEN {<<>>}
    ELSE LET shorter == TradeLists(n - 1)
         IN  shorter \cup
             {Append(list, [EntryDate |-> Len(list) + 1,
                            ExitDate |-> Len(list) + 1 + holdingPeriod,
                            Ticker |-> assetPool[1],
                            EntryPrice |-> x[1],
                            ExitPrice |-> x[2],
                            Return |-> tradeReturn(x[1], x[2])]) :
                list \in {l \in shorter : Len(l) = n - 1}, x \in TradePrices}

ReportInit ==
    /\ trades \in TradeLists(MaxTrades)
    /\ pc = "done"
    /\ dataByTicker = NoTable
    /\ i = 0 /\ k = 0 /\ triggerDate = 0
    /\ correlations = <<>>
    /\ tested = {} /\ fired = <<>> /\ ranked = <<>> /\ log = <<>>
    /\ records = <<>> /\ previous = <<>> /\ visited = <<>>
    /\ reports = <<>> /\ messages = <<>>
    /\ priceSeries = <<>> /\ dailyReturns = <<>>

ReportNext == PrintReport \/ NoTrades

ReportSpec == ReportInit /\ [][ReportNext]_vars

\* --- One call of getDailyReturns ---
\* price series of at most MaxSeries points with a close of 0 or one of Closes
MaxSeries == 4
SeriesCloses == {0} \cup {Closes[c] : c \in 1..Len(Closes)}

PriceSeriesOf(closes) ==
    [j \in 1..Len(closes) |-> [Date |-> j, Ticker |-> benchmarkTicker, Close |-> closes[j]]]

CallInit ==
    /\ \E n \in 0..MaxSeries : \E closes \in [1..n -> SeriesCloses] :
          priceSeries = PriceSeriesOf(closes)
    /\ dailyReturns = <<>>
    /\ pc = "call"
    /\ dataByTicker = NoTable
    /\ i = 0 /\ k = 0 /\ triggerDate = 0
    /\ correlations = <<>> /\ trades = <<>>
    /\ tested = {} /\ fired = <<>> /\ ranked = <<>> /\ log = <<>>
    /\ records = <<>> /\ previous = <<>> /\ visited = <<>>
    /\ reports = <<>> /\ messages = <<>>

CallGetDailyReturns ==
    /\ pc = "call"
    /\ dailyReturns' = getDailyReturns(priceSeries)
    /\ pc' = "returned"
    /\ UNCHANGED <<dataByTicker, i, k, triggerDate, correlations, trades, tested, fired, ranked, log>>
    /\ UNCHANGED <<priceSeries, mainVars, reportVars>>

CallNext == CallGetDailyReturns

CallSpec == CallInit /\ [][CallNext]_vars

\* every return of the tables is exact at RetScale
ExactReturns ==
    \A t \in Tickers : \A j \in 1..(Len(dataByTicker[t]) - 1) :
        dataByTicker[t][j].Close # 0 =>
            ((dataByTicker[t][j + 1].Close - dataByTicker[t][j].Close) * RetScale)
                % dataByTicker[t][j].Close = 0

\* --- Properties ---
FiredIndices == {fired[n].index : n \in 1..Len(fired)}

\* the window of claim C1: the volatilityWindow returns before index j
WindowBefore(j) == [m \in 1..volatilityWindow |-> At(benchmarkReturns, j - volatilityWindow + m - 1)]

\* n^2 * (sum of squared deviations from the mean) of x
RECURSIVE SqDevFrom(_, _, _)
SqDevFrom(x, n, sum) ==
    IF x = <<>> THEN 0
    ELSE (n * Head(x) - sum) * (n * Head(x) - sum) + SqDevFrom(Tail(x), n, sum)

\* r > triggerThreshold * s, s the sample standard deviation of x:
\* s^2 = SqDevFrom / (n^2 * (n - 1)), and s >= 0
AboveSampleStdDev(r, x) ==
    LET n == Len(x)
    IN  /\ r > 0
        /\ triggerThresholdDen * triggerThresholdDen * r * r * n * n * (n - 1)
             > triggerThresholdNum * triggerThresholdNum * SqDevFrom(x, n, SumSeq(x))

\* C1: a trigger fires at return index i iff volatilityWindow <= i < len(benchmarkReturns)
\* and benchmarkReturns[i] > triggerThreshold * (sample standard deviation of
\* benchmarkReturns[i-volatilityWindow .. i-1]); no index below volatilityWindow is tested,
\* and when the sweep has returned every index from volatilityWindow on was tested.
C1_TriggerRule ==
    /\ \A j \in tested : j >= volatilityWindow /\ j < Len(benchmarkReturns)
    /\ FiredIndices \subseteq tested
    /\ \A j \in tested :
          j \in FiredIndices <=> AboveSampleStdDev(At(benchmarkReturns, j), WindowBefore(j))
    /\ pc = "done" => tested = volatilityWindow..(Len(benchmarkReturns) - 1)

\* a finished sweep with a trigger over a window of non-zero deviation and a
\* positive return that stayed at or below the threshold
C1_Witness ==
    /\ pc = "done"
    /\ \E j \in FiredIndices : SqDevFrom(WindowBefore(j), volatilityWindow, SumSeq(WindowBefore(j))) > 0
    /\ \E j \in tested \ FiredIndices : At(benchmarkReturns, j) > 0

\* C2: for every trigger fired at return index i, the trigger date handed to the
\* ranker, used by the trade simulator and recorded as EntryDate of every trade of
\* that trigger is the date of the benchmark price point at index i+1.
C2_TriggerDate ==
    /\ \A n \in 1..Len(fired) :
          /\ fired[n].date = At(benchmarkData, fired[n].index + 1).Date
          /\ fired[n].date # At(benchmarkData, fired[n].index).Date
          /\ ranked[n] = calculateCorrelations(At(benchmarkData, fired[n].index + 1).Date,
                                               dataByTicker, benchmarkData)
    /\ pc = "exec" => triggerDate = At(benchmarkData, i + 1).Date
    /\ \A m \in 1..Len(trades) :
          trades[m].EntryDate = At(benchmarkData, log[m].index + 1).Date

\* a trade was recorded for a trigger
C2_Witness ==
    /\ Len(trades) > 0
    /\ \E n \in 1..Len(fired) : fired[n].index = log[1].index /\ trades[1].EntryDate = fired[n].date

\* C3: no trigger fires, and no trade is opened, at a return index whose return
\* is zero or negative, whatever its magnitude against the trailing volatility.
C3_OneSided ==
    /\ \A j \in FiredIndices : At(benchmarkReturns, j) > 0
    /\ \A m \in 1..Len(trades) : At(benchmarkReturns, log[m].index) > 0
    /\ \A j \in tested : At(benchmarkReturns, j) <= 0 => j \notin FiredIndices

\* a finished sweep that passed over a negative return whose magnitude is above
\* the threshold, of a benchmark that also triggered
C3_Witness ==
    /\ pc = "done"
    /\ FiredIndices # {}
    /\ \E j \in tested \ FiredIndices :
          /\ At(benchmarkReturns, j) < 0
          /\ AboveSampleStdDev(-At(benchmarkReturns, j), WindowBefore(j))

\* the first date of the correlation window of trigger date d: the benchmark
\* date correlationWindow positions before d
WindowStart(d) ==
    LET before == {j \in 1..Len(benchmarkData) : benchmarkData[j].Date < d}
    IN  benchmarkData[Cardinality(before) + 1 - correlationWindow].Date

\* the dates a series has between two dates, both included
DatesWithin(data, first, last) ==
    {data[j].Date : j \in {h \in 1..Len(data) : data[h].Date >= first /\ data[h].Date <= last}}

\* the returns of a ticker over the correlation window of trigger date d
WindowReturns(ticker, d) ==
    getDailyReturns(getPriceSlice(dataByTicker[ticker], WindowStart(d), d))

Constant(x) == \A a, b \in 1..Len(x) : x[a] = x[b]

\* the count of tickers a trigger trades: numAssetsToPick, or all the ranked ones
Picked(ranking) == Min(numAssetsToPick, Len(ranking))

\* C4: at every trigger the selected tickers are the numAssetsToPick ranked
\* tickers of lowest correlation (all of them when fewer were ranked), in
\* ascending order of correlation: no selected ticker has a higher correlation
\* than a ticker selected after it or than a ticker left out.
C4_LowestSelected ==
    pc = "exec" =>
        \A a \in 1..Picked(correlations) : \A b \in (a + 1)..Len(correlations) :
            ~FloatLess(correlations[b].value, correlations[a].value)

\* C5: a pool ticker is ranked at trigger date D only if its series has the
\* window start date and D, and has between them as many price points as the
\* benchmark, correlationWindow + 1, that is correlationWindow returns, the
\* last one dated D.
C5_RankedHasWindow ==
    \A n \in 1..Len(ranked) : \A c \in 1..Len(ranked[n]) :
        LET d == fired[n].date
            data == dataByTicker[ranked[n][c].ticker]
            own == DatesWithin(data, WindowStart(d), d)
        IN  /\ WindowStart(d) \in own
            /\ d \in own
            /\ Cardinality(own) = correlationWindow + 1
            /\ Cardinality(own) = Cardinality(DatesWithin(benchmarkData, WindowStart(d), d))
            /\ Len(WindowReturns(ranked[n][c].ticker, d)) = correlationWindow

\* a trigger that ranked a ticker and skipped three: one that has both dates but
\* a point less between them, one that lacks the start date, one that lacks D
C5_Witness ==
    /\ Len(ranked) > 0
    /\ LET n == Len(ranked)
           d == fired[n].date
           rankedTickers == {ranked[n][c].ticker : c \in 1..Len(ranked[n])}
           Own(t) == DatesWithin(dataByTicker[t], WindowStart(d), d)
       IN  /\ rankedTickers # {}
           /\ \E t \in Tickers \ rankedTickers :
                 /\ {WindowStart(d), d} \subseteq Own(t)
                 /\ Cardinality(Own(t)) = correlationWindow
           /\ \E t \in Tickers \ rankedTickers : WindowStart(d) \notin Own(t) /\ d \in Own(t)
           /\ \E t \in Tickers \ rankedTickers : WindowStart(d) \in Own(t) /\ d \notin Own(t)

\* C6: no ticker is ranked at a trigger where its window returns, or the
\* benchmark's, are constant.
C6_NoConstantRanked ==
    \A n \in 1..Len(ranked) : \A c \in 1..Len(ranked[n]) :
        /\ ~Constant(WindowReturns(ranked[n][c].ticker, fired[n].date))
        /\ ~Constant(WindowReturns(benchmarkTicker, fired[n].date))

\* the position of date d in a date-sorted series without duplicate dates
PositionOf(data, d) == Cardinality({j \in 1..Len(data) : data[j].Date < d})

\* the candidate of rank r of the current trigger cannot exit within its series
ExitBeyondHistory(r) ==
    LET data == dataByTicker[At(correlations, r).ticker]
    IN  /\ \E j \in 1..Len(data) : data[j].Date = triggerDate
        /\ PositionOf(data, triggerDate) + holdingPeriod >= Len(data)

\* C7: every emitted trade's exit index, entry index + holdingPeriod, is a valid
\* position of its ticker's series; a candidate whose exit index is not a valid
\* position is dropped with no record and no error, and the loop goes on to the
\* next candidate.
C7_ExitInHistory ==
    [][/\ \A m \in 1..Len(trades') :
             /\ log'[m].exitIdx = log'[m].entryIdx + holdingPeriod
             /\ log'[m].exitIdx >= 0
             /\ log'[m].exitIdx < Len(dataByTicker'[trades'[m].Ticker])
             /\ trades'[m].ExitDate = At(dataByTicker'[trades'[m].Ticker], log'[m].exitIdx).Date
       /\ pc' # "panic"
       /\ (pc = "exec" /\ k < Picked(correlations) /\ ExitBeyondHistory(k))
             => (trades' = trades /\ log' = log /\ pc' = "exec" /\ k' = k + 1 /\ i' = i)]_vars

\* a trigger that dropped a candidate for its exit index and recorded a trade
\* for a candidate of higher rank
C7_Witness ==
    /\ pc = "exec"
    /\ \E r \in 0..(k - 1) :
          /\ ExitBeyondHistory(r)
          /\ \A m \in 1..Len(log) : ~(log[m].index = i /\ log[m].rank = r)
          /\ \E m \in 1..Len(log) : log[m].index = i /\ log[m].rank > r

\* C8: for every emitted trade on ticker T at trigger date D: the entry index
\* is the position of D in T's series, EntryPrice is T's close there, the exit
\* index is entry index + holdingPeriod in T's series, ExitPrice and ExitDate
\* are T's close and date there, and T is the ticker of the trade's rank in the
\* trigger's sorted ranking.
C8_TradeFields ==
    \A m \in 1..Len(trades) :
        LET t == trades[m]
            data == dataByTicker[t.Ticker]
            entry == PositionOf(data, t.EntryDate)
            exit == entry + holdingPeriod
        IN  /\ log[m].entryIdx = entry
            /\ log[m].exitIdx = exit
            /\ exit < Len(data)
            /\ At(data, entry).Date = t.EntryDate
            /\ t.EntryPrice = At(data, entry).Close
            /\ t.ExitPrice = At(data, exit).Close
            /\ t.ExitDate = At(data, exit).Date
            /\ \E n \in 1..Len(fired) :
                  /\ fired[n].index = log[m].index
                  /\ fired[n].date = t.EntryDate
                  /\ At(sortSlice(ranked[n]), log[m].rank).ticker = t.Ticker

\* trades whose ticker's calendar differs from the benchmark's: one that exits
\* more than holdingPeriod calendar days after D, one whose entry index is not
\* D's index in the benchmark series
C8_Witness ==
    /\ \E m \in 1..Len(trades) : trades[m].ExitDate > trades[m].EntryDate + holdingPeriod
    /\ \E m \in 1..Len(trades) : log[m].entryIdx # log[m].index + 1

\* (exit/entry - 1) - frictionCost as a float64: a fraction in lowest terms, or
\* +Inf, or NaN when the entry price is 0
NetReturn(entry, exit) ==
    IF entry = 0 THEN [kind |-> IF exit = 0 THEN "NaN" ELSE "+Inf", n |-> 0, d |-> 1]
    ELSE LET num == (exit - entry) * frictionCostDen - frictionCostNum * entry
             den == entry * frictionCostDen
         IN  [kind |-> "fin", n |-> num \div Gcd(Abs(num), den), d |-> den \div Gcd(Abs(num), den)]

\* C9: every emitted trade's Return is (ExitPrice / EntryPrice - 1) - frictionCost,
\* the friction cost deducted once whatever the holding period.
C9_ReturnNetOfFriction ==
    \A m \in 1..Len(trades) :
        trades[m].Return = NetReturn(trades[m].EntryPrice, trades[m].ExitPrice)

\* entry 100, exit 105, frictionCost 0.0015: the return is 0.0485 = 97/2000
C9_Witness ==
    \E m \in 1..Len(trades) :
        /\ trades[m].EntryPrice = 100
        /\ trades[m].ExitPrice = 105
        /\ trades[m].Return = [kind |-> "fin", n |-> 97, d |-> 2000]

\* the trigger a trade was opened at, by its entry date, and the rank of its
\* ticker in that trigger's sorted ranking
TriggerOf(trade) == CHOOSE f \in 1..Len(fired) : fired[f].date = trade.EntryDate
RankOf(trade) ==
    LET ranking == sortSlice(ranked[TriggerOf(trade)])
    IN  CHOOSE r \in 1..Len(ranking) : ranking[r].ticker = trade.Ticker

\* C11: the trade list is in discovery order: of two trades the earlier in the
\* list has the smaller trigger index, or the same trigger and the smaller rank
C11_DiscoveryOrder ==
    \A p \in 1..Len(trades) : \A q \in (p + 1)..Len(trades) :
        /\ \E f \in 1..Len(fired) : fired[f].date = trades[p].EntryDate
        /\ \E f \in 1..Len(fired) : fired[f].date = trades[q].EntryDate
        /\ \/ fired[TriggerOf(trades[p])].index < fired[TriggerOf(trades[q])].index
           \/ /\ TriggerOf(trades[p]) = TriggerOf(trades[q])
              /\ RankOf(trades[p]) < RankOf(trades[q])

\* two trades of one trigger are followed by a trade of a later trigger
C11_Witness ==
    \E p \in 1..Len(trades) : \E q \in (p + 1)..Len(trades) : \E r \in (q + 1)..Len(trades) :
        /\ trades[p].EntryDate = trades[q].EntryDate
        /\ trades[q].EntryDate < trades[r].EntryDate

\* C12: a second run on the same rows ends with the trade list, the report
\* and the log lines of the first run, whatever order the map was iterated in
C12_Deterministic ==
    (pc = "exit" /\ previous # <<>>) =>
        /\ trades = previous[1].trades
        /\ reports = previous[1].reports
        /\ messages = previous[1].messages

\* two finished runs that iterated the map in different orders and traded
C12_Witness ==
    /\ pc = "exit" /\ previous # <<>>
    /\ visited # previous[1].visited
    /\ Len(trades) > 1 /\ Len(reports) = 1

\* C13: a call of getDailyReturns on n > 0 price points returns n - 1 returns,
\* the j-th being close[j+1]/close[j] - 1 (in units of 1/RetScale) when
\* close[j] is not 0, and 0 when it is
C13_DailyReturns ==
    (pc = "returned" /\ Len(priceSeries) > 0) =>
        /\ Len(dailyReturns) = Len(priceSeries) - 1
        /\ \A j \in 1..(Len(priceSeries) - 1) :
              IF priceSeries[j].Close # 0
              THEN dailyReturns[j] * priceSeries[j].Close
                      = (priceSeries[j + 1].Close - priceSeries[j].Close) * RetScale
              ELSE dailyReturns[j] = 0

\* a returned call on a series with a step from 0 to a price and one from a
\* price to 0
C13_Witness ==
    /\ pc = "returned"
    /\ \E j \in 1..(Len(priceSeries) - 1) :
          priceSeries[j].Close = 0 /\ priceSeries[j + 1].Close # 0
    /\ \E j \in 1..(Len(priceSeries) - 1) :
          priceSeries[j].Close # 0 /\ priceSeries[j + 1].Close = 0
    /\ Len(dailyReturns) = Len(priceSeries) - 1

\* the returns of a trade list, their mean, and their sample variance as the
\* sum of the squared deviations from the mean over n - 1
ReturnsOf(list) == [j \in 1..Len(list) |-> asFloat(list[j].Return)]
MeanOf(x) == fDiv(fSum(x, Len(x)), Float(Len(x), 1))
RECURSIVE SumSqDevOf(_, _)
SumSqDevOf(x, j) ==
    IF j = 0 THEN Zero0
    ELSE fAdd(SumSqDevOf(x, j - 1), fMul(fSub(x[j], MeanOf(x)), fSub(x[j], MeanOf(x))))
SampleVarianceOf(x) == fDiv(SumSqDevOf(x, Len(x)), Float(Len(x) - 1, 1))

\* two numbers are the same value, or both undefined
SameValue(x, y) == (x.kind = "nan" /\ y.kind = "nan") \/ fEqual(x, y)

\* C14: the reported Sharpe ratio is 0 for fewer than 2 trades or a sample
\* standard deviation of exactly 0, and otherwise mean / stddev * sqrt(252):
\* it has the sign of the mean and the square 252 * mean^2 / sample variance
C14_Sharpe ==
    (pc = "exit" /\ Len(reports) = 1) =>
        LET x == ReturnsOf(trades)
            sharpe == reports[1].SharpeRatio
        IN  IF Len(x) < 2 \/ fEqual(SampleVarianceOf(x), Zero0)
            THEN sharpe.s = 0 /\ fEqual(sharpe.square, Zero0)
            ELSE /\ SameValue(sharpe.square,
                              fDiv(fMul(Float(252, 1), fMul(MeanOf(x), MeanOf(x))),
                                   SampleVarianceOf(x)))
                 /\ sharpe.s = (IF sharpe.square.kind = "nan" THEN 0 ELSE MeanOf(x).s)

\* a report on two or more trades whose returns are all the same, not 0
C14_Witness ==
    /\ pc = "exit" /\ Len(reports) = 1
    /\ Len(trades) >= 2
    /\ \A j \in 1..Len(trades) : trades[j].Return = trades[1].Return
    /\ trades[1].Return.kind = "fin" /\ trades[1].Return.n # 0
    /\ reports[1].SharpeRatio = SharpeZero

\* the value of 1 compounded by the first m returns, the largest value up to
\* step m (the start value 1 included), and the drawdown at step m
RECURSIVE PathValue(_, _)
PathValue(x, m) == IF m = 0 THEN One ELSE fMul(PathValue(x, m - 1), fAdd(One, x[m]))
PeakAt(x, m) ==
    CHOOSE v \in {PathValue(x, j) : j \in 0..m} :
        \A j \in 0..m : ~fGreater(PathValue(x, j), v)
DrawdownAt(x, m) == fDiv(fSub(PeakAt(x, m), PathValue(x, m)), PeakAt(x, m))

AllFinite(list) == \A j \in 1..Len(list) : list[j].Return.kind = "fin"

\* C15: for finite returns the reported max drawdown is minus the largest of
\* the drawdowns (peak - value) / peak along the compounded path from value 1
\* and peak 1, in trade-list order; it is 0 when every return is positive
C15_MaxDrawdown ==
    (pc = "exit" /\ Len(reports) = 1 /\ AllFinite(trades)) =>
        LET x == ReturnsOf(trades)
            largest == fNeg(reports[1].MaxDrawdown)
        IN  /\ ~fGreater(Zero0, largest)
            /\ \A m \in 1..Len(x) : ~fGreater(DrawdownAt(x, m), largest)
            /\ \/ fEqual(largest, Zero0)
               \/ \E m \in 1..Len(x) : fEqual(largest, DrawdownAt(x, m))
            /\ (\A m \in 1..Len(x) : fGreater(x[m], Zero0)) => fEqual(largest, Zero0)

\* a path that rises above 1 and then loses half of its peak: reported -0.5
C15_Witness ==
    /\ pc = "exit" /\ Len(reports) = 1 /\ AllFinite(trades)
    /\ Len(trades) >= 2
    /\ fGreater(asFloat(trades[1].Return), Zero0)
    /\ fEqual(asFloat(trades[Len(trades)].Return), Float(-1, 2))
    /\ fEqual(reports[1].MaxDrawdown, Float(-1, 2))

\* the trades of a list with a Return above 0
Wins(list) ==
    {j \in 1..Len(list) :
        \/ list[j].Return.kind = "+Inf"
        \/ list[j].Return.kind = "fin" /\ list[j].Return.n > 0}

\* C16: the reported win rate is the number of trades with a Return strictly
\* above 0 over the number of trades, and lies in [0, 1]
C16_WinRate ==
    (pc = "exit" /\ Len(reports) = 1) =>
        /\ fEqual(reports[1].WinRate, Float(Cardinality(Wins(trades)), Len(trades)))
        /\ ~fGreater(Zero0, reports[1].WinRate)
        /\ ~fGreater(reports[1].WinRate, One)
        /\ reports[1].WinRate.kind = "fin"

\* a report on a winning trade, a trade with a Return of exactly 0 and
\* nothing else
C16_Witness ==
    /\ pc = "exit" /\ Len(reports) = 1
    /\ \E j \in 1..Len(trades) : trades[j].Return.kind = "fin" /\ trades[j].Return.n = 0
    /\ Cardinality(Wins(trades)) = 1
    /\ Len(trades) = 2
    /\ fEqual(reports[1].WinRate, Float(1, 2))

\* C17 as first stated: every finished run, one with an empty trade list
\* included, has derived the report exactly once
C17_ReportInEveryRun == pc = "exit" => Len(reports) = 1

\* C17: a run derives no report before the sweep has returned; a finished run
\* with trades has derived exactly one, from the whole final trade list; a
\* finished run without trades has derived none and logged that instead
C17_ReportOnce ==
    /\ pc # "exit" => reports = <<>>
    /\ pc = "exit" =>
          IF Len(trades) > 0
          THEN /\ Len(reports) = 1
               /\ reports[1].TotalTrades = Len(trades)
               /\ SameValue(reports[1].MeanReturn, MeanOf(ReturnsOf(trades)))
               /\ messages = <<>>
          ELSE /\ reports = <<>>
               /\ messages = <<"No trades were executed.">>

\* a finished run with a report on the trades of two triggers
C17_Witness ==
    /\ pc = "exit"
    /\ Len(reports) = 1
    /\ Len(fired) >= 2
    /\ \E p \in 1..Len(trades) : trades[p].EntryDate # trades[1].EntryDate

Defined(x) == x.kind = "fin"

\* C18: every correlation of a ranking and every value of a report is a
\* defined finite number
C18_AllDefined ==
    /\ \A f \in 1..Len(ranked) : \A r \in 1..Len(ranked[f]) : ~ranked[f][r].value.nan
    /\ \A n \in 1..Len(reports) :
          /\ Defined(reports[n].MeanReturn)
          /\ Defined(reports[n].WinRate)
          /\ Defined(reports[n].SharpeRatio.square)
          /\ Defined(reports[n].MaxDrawdown)

\* the report part of it on its own: the mean return and the Sharpe ratio
\* of a report are defined finite numbers
ReportDefined ==
    \A n \in 1..Len(reports) :
        /\ Defined(reports[n].MeanReturn)
        /\ Defined(reports[n].SharpeRatio.square)

\* the rows hold no record of the benchmark ticker
NoBenchmarkRows == \A n \in 1..Len(records) : records[n].Ticker # benchmarkTicker

\* C19: a run started without rows, or without rows of the benchmark, does
\* not get as far as the sweep and never completes
C19_FailFast == NoBenchmarkRows => pc \in {"load", "sort", "fatal"}

PoolIndex(ticker) == CHOOSE p \in 1..Len(assetPool) : assetPool[p] = ticker
Tied(a, b) == ~a.value.nan /\ ~b.value.nan /\ ~less(a, b) /\ ~less(b, a)

\* C20: of two tickers with equal correlations in the sorted ranking of a
\* trigger, the one that is earlier in assetPool is ranked first
C20_TiesInPoolOrder ==
    pc = "exec" =>
        \A a \in 1..Len(correlations) : \A b \in (a + 1)..Len(correlations) :
            Tied(correlations[a], correlations[b]) =>
                PoolIndex(correlations[a].ticker) < PoolIndex(correlations[b].ticker)

\* a sorted ranking that differs from the unsorted one and holds two tickers
\* with equal correlations, the second of them among the picked
C20_Witness ==
    /\ pc = "exec"
    /\ correlations # ranked[Len(ranked)]
    /\ \E a \in 1..Len(correlations) : \E b \in (a + 1)..Len(correlations) :
          /\ Tied(correlations[a], correlations[b])
          /\ b <= numAssetsToPick

\* volatilityWindow returns of 0 followed by a single return of 0.05
ScenarioA ==
    /\ Len(benchmarkReturns) = volatilityWindow + 1
    /\ \A m \in 1..volatilityWindow : benchmarkReturns[m] = 0
    /\ benchmarkReturns[volatilityWindow + 1] * 20 = RetScale

\* C21: at an index whose trailing window is constant a trigger fires iff the
\* return is above 0; twenty returns of 0 followed by 0.05 fire exactly one
\* trigger, at the 21st return index, dated by the price point after it
C21_ConstantWindow ==
    /\ \A j \in tested :
          LET window == WindowBefore(j)
          IN  (\A m \in 1..Len(window) : window[m] = window[1]) =>
                  (j \in FiredIndices <=> At(benchmarkReturns, j) > 0)
    /\ (ScenarioA /\ pc \in {"done", "exit"}) =>
          fired = <<[index |-> volatilityWindow,
                     date |-> benchmarkData[volatilityWindow + 2].Date]>>

\* the sweep over the twenty-and-one returns has returned, with its trigger
C21_Witness ==
    /\ ScenarioA
    /\ pc = "done"
    /\ volatilityWindow \in FiredIndices
    /\ Constant(WindowBefore(volatilityWindow))

\* C22: every step of a run leaves the trades already in the list as they
\* are, in their places: the list before the step is a prefix of the list
\* after it
C22_AppendOnly ==
    [][/\ Len(trades') >= Len(trades)
       /\ SubSeq(trades', 1, Len(trades)) = trades]_vars

\* the list holds the trades of an earlier trigger while a later one is traded
C22_Witness ==
    /\ pc = "exec"
    /\ Len(trades) >= 2
    /\ trades[1].EntryDate < triggerDate
    /\ trades[Len(trades)].EntryDate = triggerDate

\* C23: no step of the run (the sweep with its ranking and trade simulation, and
\* the report) changes the price table: every ticker's series keeps its length,
\* order, dates and closes.
C23_TableUnchanged ==
    [][(pc \in {"scan", "exec", "done"}) => (dataByTicker' = dataByTicker)]_vars

\* a finished run that ranked the pool, traded and reported, on a table with
\* series for the benchmark and for at least three pool tickers
C23_Witness ==
    /\ pc = "exit"
    /\ Len(trades) >= numAssetsToPick
    /\ Len(reports) = 1
    /\ Len(dataByTicker[benchmarkTicker]) > correlationWindow
    /\ Cardinality({t \in Range(assetPool) : dataByTicker[t] # <<>>}) >= numAssetsToPick

\* the trades that the price table and the date d alone determine for the
\* candidates of ranks from up to upto - 1 of the sorted ranking of d
RECURSIVE TradesOfRanking(_, _, _, _)
TradesOfRanking(ranking, d, from, upto) ==
    IF from >= upto THEN <<>>
    ELSE LET ticker == At(ranking, from).ticker
             data == dataByTicker[ticker]
             entry == PositionOf(data, d)
             exit == entry + holdingPeriod
         IN  (IF (\E j \in 1..Len(data) : data[j].Date = d) /\ exit < Len(data)
              THEN <<[EntryDate |-> d,
                      ExitDate |-> At(data, exit).Date,
                      Ticker |-> ticker,
                      EntryPrice |-> At(data, entry).Close,
                      ExitPrice |-> At(data, exit).Close,
                      Return |-> NetReturn(At(data, entry).Close, At(data, exit).Close)]>>
              ELSE <<>>)
             \o TradesOfRanking(ranking, d, from + 1, upto)

\* the trades of the n-th trigger taken on its own: those of the first
\* candidates of the sorted ranking returned for its date
TradesAt(n) ==
    TradesOfRanking(sortSlice(ranked[n]), fired[n].date, 0, Picked(ranked[n]))

\* the trades of the first n triggers, each taken on its own, put in the order
\* of (trigger index, rank)
RECURSIVE TradesOfTriggers(_)
TradesOfTriggers(n) ==
    IF n = 0 THEN <<>> ELSE TradesOfTriggers(n - 1) \o TradesAt(n)

\* C24: the trades of a trigger depend on the price table, the parameters and
\* the trigger date only: the ranking of the trigger in progress is the one
\* computed from the table and its date, and the trade list is, at every
\* moment, the trades that each finished trigger determines on its own, in the
\* order of (trigger index, rank), followed by those of the candidates already
\* simulated of the trigger in progress; trades already emitted or still open
\* change nothing.
C24_TriggersIndependent ==
    /\ pc \in {"scan", "done", "exit"} => trades = TradesOfTriggers(Len(fired))
    /\ pc = "exec" =>
          /\ ranked[Len(ranked)] = calculateCorrelations(triggerDate, dataByTicker, benchmarkData)
          /\ correlations = sortSlice(ranked[Len(ranked)])
          /\ trades = TradesOfTriggers(Len(fired) - 1)
                          \o TradesOfRanking(correlations, triggerDate, 0, k)

\* a finished sweep that traded a ticker again while an earlier trade on it was
\* still held
C24_Witness ==
    /\ pc = "done"
    /\ \E p \in 1..Len(trades) : \E q \in (p + 1)..Len(trades) :
          /\ trades[p].Ticker = trades[q].Ticker
          /\ trades[p].EntryDate < trades[q].EntryDate
          /\ trades[q].EntryDate < trades[p].ExitDate

\* the n-th trigger has less than correlationWindow price points before its date
EarlyTrigger(n) == PositionOf(benchmarkData, fired[n].date) < correlationWindow

\* C25: a trigger whose date is at a benchmark price index below
\* correlationWindow gets an empty ranking and no trade; the sweep goes on to
\* every later index; so no trade is entered at a benchmark price index below
\* correlationWindow.
C25_EarlyTriggerNoTrades ==
    /\ \A n \in 1..Len(fired) :
          EarlyTrigger(n) =>
              /\ ranked[n] = <<>>
              /\ \A m \in 1..Len(trades) :
                    log[m].index # fired[n].index /\ trades[m].EntryDate # fired[n].date
              /\ pc \in {"done", "exit"} =>
                    (fired[n].index + 1)..(Len(benchmarkReturns) - 1) \subseteq tested
    /\ \A m \in 1..Len(trades) :
          PositionOf(benchmarkData, trades[m].EntryDate) >= correlationWindow

\* a finished sweep with a trigger too early to be ranked and a later trigger
\* that was ranked and traded
C25_Witness ==
    /\ pc = "done"
    /\ \E n \in 1..Len(fired) : \E l \in (n + 1)..Len(fired) :
          /\ EarlyTrigger(n)
          /\ ranked[l] # <<>>
          /\ \E m \in 1..Len(trades) : trades[m].EntryDate = fired[l].date

\* the trades of the n-th trigger, by their entry date
TradesOn(n) == {m \in 1..Len(trades) : trades[m].EntryDate = fired[n].date}

\* the tickers at the first min(numAssetsToPick, number ranked) positions of
\* the n-th trigger's sorted ranking
Selected(n) == {sortSlice(ranked[n])[r].ticker : r \in 1..Picked(ranked[n])}

\* C26: the trades of a trigger are on tickers among the first
\* min(numAssetsToPick, number ranked) positions of its ranking, at most one a
\* ticker and so at most numAssetsToPick a trigger; a ticker ranked below
\* these positions is never traded, whatever happened to the selected ones.
C26_OnlySelectedTraded ==
    \A n \in 1..Len(fired) :
        /\ \A m \in TradesOn(n) : trades[m].Ticker \in Selected(n)
        /\ \A a, b \in TradesOn(n) : trades[a].Ticker = trades[b].Ticker => a = b
        /\ Cardinality(TradesOn(n)) <= numAssetsToPick
        /\ Cardinality(TradesOn(n)) <= Len(ranked[n])

\* a trigger ended with more tickers ranked than selected, a selected one
\* dropped for its exit index, and fewer than numAssetsToPick trades
C26_Witness ==
    /\ pc = "exec"
    /\ k = numAssetsToPick
    /\ Len(correlations) > numAssetsToPick
    /\ \E r \in 0..(numAssetsToPick - 1) : ExitBeyondHistory(r)
    /\ Cardinality(TradesOn(Len(fired))) \in 1..(numAssetsToPick - 1)

\* C27: every ticker of the ranking of the trigger in progress, and so every
\* ticker that reaches the trade simulator, has a price point dated with the
\* trigger date: findDateIndex finds it, and the branch for entryIdx = -1 is
\* never taken.
C27_PickedHasTriggerDate ==
    pc = "exec" =>
        \A r \in 0..(Len(correlations) - 1) :
            LET assetData == dataByTicker[At(correlations, r).ticker]
                entryIdx == findDateIndex(assetData, triggerDate)
            IN  /\ entryIdx # -1
                /\ entryIdx \in 0..(Len(assetData) - 1)
                /\ At(assetData, entryIdx).Date = triggerDate
                /\ getPriceSlice(assetData, WindowStart(triggerDate), triggerDate) # <<>>

\* a trigger that traded a ranked ticker while a pool ticker with a series but
\* no price point on the trigger date was left out of the ranking
C27_Witness ==
    /\ pc = "exec"
    /\ k > 0
    /\ \E m \in 1..Len(trades) : trades[m].EntryDate = triggerDate
    /\ \E t \in Range(assetPool) :
          /\ dataByTicker[t] # <<>>
          /\ findDateIndex(dataByTicker[t], triggerDate) = -1
          /\ \A r \in 1..Len(correlations) : correlations[r].ticker # t

\* C28: the sweep never reads outside the benchmark arrays, whatever the
\* length of the benchmark series: every tested index i is a position of the
\* return series with volatilityWindow returns before it, every trigger's
\* i + 1 is a position of the price series, and a benchmark with at most
\* volatilityWindow returns is never tested, triggers nothing and trades
\* nothing.
C28_BenchmarkReadsInRange ==
    /\ pc # "panic"
    /\ \A j \in tested :
          /\ j - volatilityWindow >= 0
          /\ j < Len(benchmarkReturns)
    /\ \A n \in 1..Len(fired) :
          /\ fired[n].index + 1 \in 0..(Len(benchmarkData) - 1)
          /\ fired[n].date = At(benchmarkData, fired[n].index + 1).Date
    /\ Len(benchmarkData) <= 1 => Len(benchmarkReturns) = 0
    /\ Len(benchmarkReturns) <= volatilityWindow =>
          tested = {} /\ fired = <<>> /\ trades = <<>> /\ pc \in {"scan", "done", "exit"}

\* a trigger at the last return index: i + 1 is the last position of the
\* benchmark price series
C28_Witness ==
    /\ pc = "done"
    /\ Len(fired) = 1
    /\ fired[1].index = Len(benchmarkReturns) - 1
    /\ fired[1].index + 1 = Len(benchmarkData) - 1

\* the report's max drawdown of a finished run
MaxDrawdownOf == reports[1].MaxDrawdown

NoReturnBelowMinusOne(list) ==
    \A j \in 1..Len(list) : list[j].Return.kind = "fin" => list[j].Return.n >= -list[j].Return.d

SweepIndices == volatilityWindow..(Len(benchmarkReturns) - 1)

\* an upper bound of the number of steps the run has left: numAssetsToPick + 2
\* for each index still to test (the test, the picks, the end of the
\* trigger), then the return and the report
Remaining ==
    LET left == Len(benchmarkReturns) - i
        weight == numAssetsToPick + 2
    IN  IF pc = "scan" THEN (IF left > 0 THEN left * weight + 2 ELSE 2)
        ELSE IF pc = "exec" THEN left * weight + 1 - k
        ELSE IF pc = "done" THEN 1
        ELSE 0

\* the sweep has a next step to take
NotBlocked ==
    /\ pc = "scan" =>
          \/ ENABLED Return
          \/ ENABLED NoTrigger
          \/ (i < Len(benchmarkReturns) /\ triggerFires(benchmarkReturns, i))
    /\ pc = "exec" => (ENABLED EndTrigger \/ ENABLED Execute)

\* C30: the sweep is linear and ends: each step that tests an index tests the
\* index that follows the ones tested so far, starting at volatilityWindow;
\* the index never goes back; runBacktest returns when every index up to the
\* last was tested, and returns the trade list as it is; every step brings
\* the run closer to its end by a bound that cannot go below 0, so no run goes
\* on for ever; and before the return there is always a next step to take.
C30_LinearSweep ==
    /\ [][/\ i' >= i
          /\ (pc = "scan" /\ pc' # "done") =>
                /\ i \in SweepIndices
                /\ tested = volatilityWindow..(i - 1)
                /\ tested' = tested \cup {i}
          /\ (pc = "exec") => (tested' = tested /\ i' \in {i, i + 1})
          /\ (pc = "scan" /\ pc' = "done") =>
                (tested = SweepIndices /\ trades' = trades /\ tested' = tested)
          /\ (pc \in {"done", "exit"}) => (trades' = trades /\ tested' = tested /\ i' = i)
          /\ Remaining' < Remaining
          /\ Remaining' >= 0
         ]_vars
    /\ []NotBlocked

\* a returned sweep that tested more than ten indices, fired two triggers
\* and traded
C30_Witness ==
    /\ pc = "done"
    /\ tested = SweepIndices
    /\ Cardinality(tested) > 10
    /\ Len(fired) >= 2
    /\ Len(trades) > 0

====
